---------------------------- MODULE Spec2Model ----------------------------
(***************************************************************************)
(* Model of husky_trainer's Repeat node (src/src/Repeat.cpp).              *)
(*                                                                         *)
(* Threads: the main thread runs spin() (the fixed-rate loop), the         *)
(* callbacks that ros::spinOnce() dispatches (joystickCallback,            *)
(* cloudCallback, paramCallback) and finally the destructor.  Every        *)
(* cloudCallback spawns a detached boost::thread running updateError();    *)
(* those scan tasks run concurrently with the main thread and with each    *)
(* other.  Nothing but serviceCallLock synchronises them, so the shared    *)
(* fields (currentStatus, baseSimTime, positionCursor, ...) are accessed   *)
(* step by step: one action per read-then-branch or write of the code.     *)
(*                                                                         *)
(* Times are integers (ticks of the wall clock).  Cursors are 1-based      *)
(* indexes into the loaded sequences.                                      *)
(*                                                                         *)
(* Specifications:                                                         *)
(*   Spec      the whole node; poseOfTime, the building of a scan's        *)
(*             request and paramCallback are each one step.                *)
(*   SpecFine  the whole node with the request built and paramCallback     *)
(*             run statement by statement.                                 *)
(*   SpecLive  Spec with the threads kept running (weak fairness).         *)
(*   SpecCmd   commandOfTime alone, over any recorded command sequence.    *)
(*   SpecLoad  the start of spin() after any outcome of loading.           *)
(*   SpecPose  poseOfTime alone, called by several threads, step by step.  *)
(***************************************************************************)
EXTENDS Integers, Sequences, FiniteSets, Bags

VARIABLES
    commands,           \* std::vector<TwistStamped>, loaded by loadCommands
    positions,          \* std::vector<PoseStamped>, loaded by loadPositions
    anchorPoints,       \* std::vector<AnchorPoint>, loaded by loadAnchorPoints
    commandCursor,      \* iterator into commands (index)
    positionCursor,     \* iterator into positions (index)
    anchorPointCursor,  \* iterator into anchorPoints (index)
    currentStatus,      \* PLAY / PAUSE / ERROR
    baseSimTime,        \* accumulated simulated time
    timePlaybackStarted,\* wall time of the last startPlayback()
    lookahead,          \* set by paramCallback
    serviceCallLock,    \* boost::mutex: TRUE when locked
    now,                \* ros::Time::now()
    readingTopicActive, \* readingTopic subscription not yet shut down
    rosOk,              \* what ros::ok() answered at the last loop test
    mainPc,             \* position of the main thread
    timeOfSpin,         \* spin() local
    distanceToCurrentAnchorPoint, \* spin() local
    distanceToNextAnchorPoint,    \* spin() local
    desiredStatus,      \* argument of the main thread's switchToStatus call
    joyMsg,             \* the Joy message joystickCallback is handling or has just ignored
    task,               \* the live updateError threads: a bag of [pc and locals]
    nSpawned,           \* threads spawned by cloudCallback so far
    lastCommand,        \* last message on commandRepeaterTopic
    apSwitches,         \* names published on anchorPointSwitchTopic, in order
    cycleAdvances,      \* anchor advances made in the current loop cycle
    faultPending,       \* a fault set ERROR and no acknowledge input came since
    qTime,              \* argument of the last commandOfTime call
    qLook,              \* lookahead during the last commandOfTime call
    prevCursor,         \* commandCursor before the last commandOfTime call
    result              \* twist returned by the last commandOfTime call

vars == << commands, positions, anchorPoints, commandCursor, positionCursor,
           anchorPointCursor, currentStatus, baseSimTime, timePlaybackStarted,
           lookahead, serviceCallLock, now, readingTopicActive, rosOk, mainPc,
           timeOfSpin, distanceToCurrentAnchorPoint, distanceToNextAnchorPoint,
           desiredStatus, joyMsg, task, nSpawned, lastCommand, apSwitches,
           cycleAdvances, faultPending, qTime, qLook, prevCursor, result >>

\* The groups of variables the actions leave alone.
dataVars   == << commands, positions, anchorPoints >>
cursorVars == << commandCursor, positionCursor, anchorPointCursor >>
clockVars  == << baseSimTime, timePlaybackStarted >>
spinLocals == << timeOfSpin, distanceToCurrentAnchorPoint, distanceToNextAnchorPoint >>
joyLocals  == << desiredStatus, joyMsg >>
queryVars  == << qTime, qLook, prevCursor, result >>
envVars    == << now >>
lifeVars   == << readingTopicActive, rosOk >>

---------------------------------------------------------------------------
\* Bounds of the model.

\* Scan threads cloudCallback may spawn over a run.
MaxScans == 2
\* Last value of the wall clock.
MaxNow == 1
\* Longest command sequence drawn for the commandOfTime queries.
MaxLen == 3
\* Largest query time drawn for the commandOfTime queries.
MaxTime == 25

\* std::numeric_limits<double>::infinity(): above every distance of the model.
Infinity == 1000

Status == {"PLAY", "PAUSE", "ERROR"}

\* The Joy messages: the two buttons joystickCallback reads.
JoyMsgs == [RB : {0, 1}, X : {0, 1}]
NoJoy == [RB |-> 0, X |-> 0]

\* Lookahead values paramCallback may set while the loop runs.
MainLookaheads == {0, 1}
\* Lookahead values of the commandOfTime queries (a negative one included).
Lookaheads == {-5, 0, 5}

\* The teach loaded for the runs of the whole node: three commands and three
\* poses stamped 0, 1, 2, the poses on a line, two anchor points.
TeachCommands == << [stamp |-> 0, twist |-> 1], [stamp |-> 1, twist |-> 2],
                    [stamp |-> 2, twist |-> 3] >>
TeachPositions == << [stamp |-> 0, pose |-> 0], [stamp |-> 1, pose |-> 2],
                     [stamp |-> 2, pose |-> 4] >>
TeachAnchorPoints == << [name |-> "ap0", position |-> 0],
                        [name |-> "ap1", position |-> 4] >>

\* Stamps of the drawn command sequences: 0 s, 1 s, 2 s in tenths of a second.
StampValues == {0, 10, 20}

IsSorted(s) == \A i \in 1..(Len(s) - 1) : s[i] <= s[i + 1]

\* The command sequences of the commandOfTime queries: non-empty, stamps
\* non-decreasing as recorded, the twist of entry i identified by i.
StampSeqs ==
    { s \in UNION { [1..n -> StampValues] : n \in 1..MaxLen } : IsSorted(s) }
CommandSeqs ==
    { [i \in 1..Len(s) |-> [stamp |-> s[i], twist |-> i]] : s \in StampSeqs }

\* The pose sequences a teach may have left, the pose of entry i identified
\* by i.
PoseSeqs ==
    { [i \in 1..Len(s) |-> [stamp |-> s[i], pose |-> i]] : s \in StampSeqs }

---------------------------------------------------------------------------
\* Helpers of the code.

\* *cursor of a vector iterator.  Garbage stands for what the read of an
\* iterator outside its vector yields when it yields anything.
Garbage == [stamp |-> -1, twist |-> 0, pose |-> -1]
Deref(seq, i) == IF i \in DOMAIN seq THEN seq[i] ELSE Garbage

\* geo_util::customDistance on the line the poses of the model lie on.
Distance(a, b) == IF a >= b THEN a - b ELSE b - a

\* simTime()
SimTime ==
    IF currentStatus = "PLAY"
    THEN baseSimTime + (now - timePlaybackStarted)
    ELSE baseSimTime

\* commandOfTime had it tested the entry after the cursor.
RECURSIVE CommandAdvanceOnNext(_, _, _)
CommandAdvanceOnNext(cmds, c, limit) ==
    IF c < Len(cmds) /\ cmds[c + 1].stamp < limit
    THEN CommandAdvanceOnNext(cmds, c + 1, limit)
    ELSE c

\* commandOfTime had it compared the cursor with commands.end().
RECURSIVE CommandAdvancePastEnd(_, _, _)
CommandAdvancePastEnd(cmds, c, limit) ==
    IF c <= Len(cmds) /\ cmds[c].stamp < limit
    THEN CommandAdvancePastEnd(cmds, c + 1, limit)
    ELSE c

\* The loop of commandOfTime: from cursor c, step forward while the entry at
\* the cursor is stamped before limit (= time + lookahead) and the cursor is
\* before commands.end() - 1.
RECURSIVE CommandAdvance(_, _, _)
CommandAdvance(cmds, c, limit) ==
    IF cmds[c].stamp < limit /\ c < Len(cmds)
    THEN CommandAdvance(cmds, c + 1, limit)
    ELSE c

\* The loop of poseOfTime, likewise, against time itself.
RECURSIVE PoseAdvance(_, _, _)
PoseAdvance(poss, c, time) ==
    IF Deref(poss, c).stamp < time /\ c < Len(poss)
    THEN PoseAdvance(poss, c + 1, time)
    ELSE c

\* spin() had it asked for a strictly closer next anchor point.
AnchorShouldAdvanceStrict(cur, n, dCur, dNext) ==
    cur + 1 <= n /\ dCur > dNext

\* The condition of spin() for moving to the next anchor point.
AnchorShouldAdvance(cur, n, dCur, dNext) ==
    cur + 1 <= n /\ dCur >= dNext

\* The loop test had it compared the cursor with commands.end().
LoopContinuesToEnd(ok, cmds, c, ub) ==
    ok /\ c <= Len(cmds)

\* The loop test of spin(): ros::ok() && commandCursor < commands.end() - 1.
\* On an empty vector commands.end() - 1 lies before begin(): the comparison
\* is undefined and yields ub.
LoopContinues(ok, cmds, c, ub) ==
    ok /\ (IF Len(cmds) = 0 THEN ub ELSE c < Len(cmds))

\* A try_lock that does not look at the lock.
TryLockAlways == TRUE

\* serviceCallLock.try_lock()
TryLockSucceeds == ~serviceCallLock

\* switchToStatus had it paused for every fault.
ErrorNeedsPauseAlways(desired, status) ==
    desired = "ERROR"

\* switchToStatus had it paused for a fault only when playing.
ErrorNeedsPauseInPlay(desired, status) ==
    desired = "ERROR" /\ status = "PLAY"

\* The first test of switchToStatus: the fault branch.
ErrorNeedsPause(desired, status) ==
    desired = "ERROR" /\ status # "ERROR"

---------------------------------------------------------------------------
\* Initial state: the state the constructor leaves.

\* A scan thread as boost::thread starts it.  Threads carry no identity the
\* code reads, so the live ones are kept as a bag of their positions and
\* locals: calls counts the registration calls the thread has made, idles the
\* idle commands it has published, stAtFail is currentStatus as it was when
\* its registration call failed, poseAnchor and cloudAnchor are the anchor
\* points whose pose and whose cloud went into the request it is building
\* (0: none, or the request has been sent or dropped), updates counts its
\* calls of controller.updateError and reports its messages on
\* errorReportingTopic.
NewTask == [pc |-> "start", idles |-> 0, calls |-> 0, stAtFail |-> "none",
            poseAnchor |-> 0, cloudAnchor |-> 0, updates |-> 0, reports |-> 0]

\* What the constructor sets whatever the teach is.
InitNode ==
    /\ commandCursor = 1
    /\ positionCursor = 1
    /\ anchorPointCursor = 1
    /\ currentStatus = "PAUSE"
    /\ baseSimTime = 0
    /\ timePlaybackStarted = 0
    /\ serviceCallLock = FALSE
    /\ now = 0
    /\ readingTopicActive = TRUE
    /\ rosOk = TRUE
    /\ mainPc = "loop"
    /\ timeOfSpin = 0
    /\ distanceToCurrentAnchorPoint = 0
    /\ distanceToNextAnchorPoint = 0
    /\ desiredStatus = "PAUSE"
    /\ joyMsg = NoJoy
    /\ task = EmptyBag
    /\ nSpawned = 0
    /\ lastCommand = "none"
    /\ apSwitches = << >>
    /\ cycleAdvances = 0
    /\ faultPending = FALSE
    /\ qTime = 0
    /\ qLook = 0
    /\ prevCursor = 1
    /\ result = 0

Init ==
    /\ commands = TeachCommands
    /\ positions = TeachPositions
    /\ anchorPoints = TeachAnchorPoints
    /\ lookahead \in MainLookaheads
    /\ InitNode

---------------------------------------------------------------------------
\* The environment.

\* The wall clock advances.
Tick ==
    /\ now < MaxNow
    /\ now' = now + 1
    /\ UNCHANGED << dataVars, cursorVars, currentStatus, clockVars, lookahead,
                    serviceCallLock, lifeVars, mainPc, spinLocals,
                    joyLocals, task, nSpawned, lastCommand, apSwitches,
                    cycleAdvances, faultPending, queryVars >>

---------------------------------------------------------------------------
\* pausePlayback(): publish the idle command, add the elapsed wall time.
PausePlayback ==
    /\ lastCommand' = "idle"
    /\ baseSimTime' = baseSimTime + (now - timePlaybackStarted)

---------------------------------------------------------------------------
\* A scan task: updateError() on its own thread.

\* The bag of threads after thread r has moved to r2, and after it has ended.
Moved(r, r2) == (task (-) SetToBag({r})) (+) SetToBag({r2})
Ended(r) == task (-) SetToBag({r})

\* What a step of a scan task leaves alone besides the fields it names.
TaskFrame ==
    UNCHANGED << dataVars, commandCursor, anchorPointCursor, lookahead, envVars,
                 lifeVars, mainPc, spinLocals, joyLocals, nSpawned,
                 apSwitches, cycleAdvances, queryVars >>

\* Lines 129-140: poseOfTime(simTime()), the transform, the request.
T_Prepare(r) ==
    /\ r.pc = "start"
    /\ positionCursor' = PoseAdvance(positions, positionCursor, SimTime)
    /\ task' = Moved(r, [r EXCEPT !.pc = "trylock"])
    /\ UNCHANGED << currentStatus, clockVars, serviceCallLock, lastCommand, faultPending >>
    /\ TaskFrame

\* Lines 129-140 in the two steps that read anchorPointCursor.  Lines 129-136:
\* poseOfTime(simTime()) and the position of the anchor point at the cursor
\* give the transform applied to the reading.
T_Transform(r) ==
    /\ r.pc = "start"
    /\ positionCursor' = PoseAdvance(positions, positionCursor, SimTime)
    /\ task' = Moved(r, [r EXCEPT !.pc = "request", !.poseAnchor = anchorPointCursor])
    /\ UNCHANGED << currentStatus, clockVars, serviceCallLock, lastCommand, faultPending >>
    /\ TaskFrame

\* Lines 138-140: the request takes the cloud of the anchor point at the
\* cursor, read again, as its reference.
T_Request(r) ==
    /\ r.pc = "request"
    /\ task' = Moved(r, [r EXCEPT !.pc = "trylock", !.cloudAnchor = anchorPointCursor])
    /\ UNCHANGED << positionCursor, currentStatus, clockVars, serviceCallLock,
                    lastCommand, faultPending >>
    /\ TaskFrame

\* Line 142: try_lock.  When it fails the scan is dropped (line 157).
T_TryLock(r) ==
    /\ r.pc = "trylock"
    /\ IF TryLockSucceeds
       THEN /\ serviceCallLock' = TRUE
            /\ task' = Moved(r, [r EXCEPT !.pc = "call", !.calls = @ + 1,
                                            !.poseAnchor = 0, !.cloudAnchor = 0])
       ELSE /\ serviceCallLock' = serviceCallLock
            /\ task' = Moved(r, [r EXCEPT !.pc = "dropped", !.poseAnchor = 0,
                                            !.cloudAnchor = 0])
    /\ UNCHANGED << positionCursor, currentStatus, clockVars, lastCommand, faultPending >>
    /\ TaskFrame

\* updateError had it treated a busy service as a fault.
T_DroppedAsFault(r) ==
    /\ r.pc = "dropped"
    /\ task' = Moved(r, [r EXCEPT !.pc = "sw_check"])
    /\ UNCHANGED << positionCursor, currentStatus, clockVars, serviceCallLock,
                    lastCommand, faultPending >>
    /\ TaskFrame

\* Lines 158-160: the drop is logged and the thread ends.
T_Dropped(r) ==
    /\ r.pc = "dropped"
    /\ task' = Ended(r)
    /\ UNCHANGED << positionCursor, currentStatus, clockVars, serviceCallLock,
                    lastCommand, faultPending >>
    /\ TaskFrame

\* Line 144: icpService.call returns true.
T_CallOk(r) ==
    /\ r.pc = "call"
    /\ task' = Moved(r, [r EXCEPT !.pc = "update"])
    /\ UNCHANGED << positionCursor, currentStatus, clockVars, serviceCallLock,
                    lastCommand, faultPending >>
    /\ TaskFrame

\* updateError had it used the result of the call only while playing.
T_UpdateInPlayOnly(r) ==
    /\ r.pc = "update"
    /\ task' = Moved(r, IF currentStatus = "PLAY"
                        THEN [r EXCEPT !.pc = "unlock", !.updates = @ + 1, !.reports = @ + 1]
                        ELSE [r EXCEPT !.pc = "unlock"])
    /\ UNCHANGED << positionCursor, currentStatus, clockVars, serviceCallLock,
                    lastCommand, faultPending >>
    /\ TaskFrame

\* Lines 146-151: controller.updateError and the error report.
T_Update(r) ==
    /\ r.pc = "update"
    /\ task' = Moved(r, [r EXCEPT !.pc = "unlock", !.updates = @ + 1, !.reports = @ + 1])
    /\ UNCHANGED << positionCursor, currentStatus, clockVars, serviceCallLock,
                    lastCommand, faultPending >>
    /\ TaskFrame

\* Line 144: icpService.call returns false; switchToStatus(ERROR) is entered.
T_CallFail(r) ==
    /\ r.pc = "call"
    /\ task' = Moved(r, [r EXCEPT !.pc = "sw_check", !.stAtFail = currentStatus])
    /\ UNCHANGED << positionCursor, currentStatus, clockVars, serviceCallLock,
                    lastCommand, faultPending >>
    /\ TaskFrame

\* Line 229: the test of the fault branch.  When it is false nothing is left
\* to do: with desiredStatus = ERROR no case of the switch (lines 236-261)
\* does anything.
T_SwCheck(r) ==
    /\ r.pc = "sw_check"
    /\ task' = Moved(r, [r EXCEPT !.pc =
                    IF ErrorNeedsPause("ERROR", currentStatus) THEN "sw_pause" ELSE "unlock"])
    /\ UNCHANGED << positionCursor, currentStatus, clockVars, serviceCallLock,
                    lastCommand, faultPending >>
    /\ TaskFrame

\* Line 232: pausePlayback().
T_SwPause(r) ==
    /\ r.pc = "sw_pause"
    /\ PausePlayback
    /\ task' = Moved(r, [r EXCEPT !.pc = "sw_set", !.idles = @ + 1])
    /\ UNCHANGED << positionCursor, currentStatus, timePlaybackStarted,
                    serviceCallLock, faultPending >>
    /\ TaskFrame

\* Line 233: currentStatus = ERROR; the switch that follows does nothing.
T_SwSet(r) ==
    /\ r.pc = "sw_set"
    /\ currentStatus' = "ERROR"
    /\ faultPending' = TRUE
    /\ task' = Moved(r, [r EXCEPT !.pc = "unlock"])
    /\ UNCHANGED << positionCursor, clockVars, serviceCallLock, lastCommand >>
    /\ TaskFrame

\* updateError had it unlocked in the success branch only.
T_UnlockOnSuccessOnly(r) ==
    /\ r.pc = "unlock"
    /\ serviceCallLock' = (r.stAtFail # "none")
    /\ task' = Ended(r)
    /\ UNCHANGED << positionCursor, currentStatus, clockVars, lastCommand, faultPending >>
    /\ TaskFrame

\* Line 156: unlock; the thread ends.
T_Unlock(r) ==
    /\ r.pc = "unlock"
    /\ serviceCallLock' = FALSE
    /\ task' = Ended(r)
    /\ UNCHANGED << positionCursor, currentStatus, clockVars, lastCommand, faultPending >>
    /\ TaskFrame

---------------------------------------------------------------------------
\* The main thread: spin().

\* What every step of the main thread leaves alone.
MainFrame == UNCHANGED << dataVars, envVars, queryVars >>

\* Line 80: the loop test.  ros::ok() answers ok: the process may be asked to
\* stop at any time, and spin() reads ros::ok() nowhere else.  ub is what the
\* comparison yields should the command sequence be empty.
M_Loop ==
    /\ mainPc = "loop"
    /\ \E ok, ub \in BOOLEAN :
         /\ rosOk' = ok
         /\ mainPc' = IF LoopContinues(ok, commands, commandCursor, ub)
                      THEN "simtime" ELSE "exited"
    /\ cycleAdvances' = 0
    /\ UNCHANGED << cursorVars, currentStatus, clockVars, lookahead, serviceCallLock,
                    readingTopicActive, spinLocals, joyLocals, task, nSpawned,
                    lastCommand, apSwitches, faultPending >>
    /\ MainFrame

\* Line 82: timeOfSpin = simTime().
M_SimTime ==
    /\ mainPc = "simtime"
    /\ timeOfSpin' = SimTime
    /\ mainPc' = "dcur"
    /\ UNCHANGED << cursorVars, currentStatus, clockVars, lookahead, serviceCallLock,
                    lifeVars, distanceToCurrentAnchorPoint,
                    distanceToNextAnchorPoint, joyLocals, task, nSpawned,
                    lastCommand, apSwitches, cycleAdvances, faultPending >>
    /\ MainFrame

\* Lines 84-85: the distance to the current anchor point.  With the cursor
\* outside the vector (an empty pose sequence) the read of line 200 is
\* undefined: the process crashes or goes on with what it read.
M_DistCur ==
    /\ mainPc = "dcur"
    /\ \E crash \in BOOLEAN :
         IF crash /\ positionCursor \notin DOMAIN positions
         THEN /\ mainPc' = "crashed"
              /\ UNCHANGED << positionCursor, distanceToCurrentAnchorPoint >>
         ELSE /\ positionCursor' = PoseAdvance(positions, positionCursor, timeOfSpin)
              /\ distanceToCurrentAnchorPoint' =
                     Distance(Deref(positions, positionCursor').pose,
                              anchorPoints[anchorPointCursor].position)
              /\ mainPc' = "dnext"
    /\ UNCHANGED << commandCursor, anchorPointCursor, currentStatus, clockVars,
                    lookahead, serviceCallLock, lifeVars, timeOfSpin,
                    distanceToNextAnchorPoint, joyLocals, task, nSpawned,
                    lastCommand, apSwitches, cycleAdvances, faultPending >>
    /\ MainFrame

\* Lines 87-89: the distance to the next anchor point, infinity without one.
M_DistNext ==
    /\ mainPc = "dnext"
    /\ IF anchorPointCursor + 1 <= Len(anchorPoints)
       THEN /\ positionCursor' = PoseAdvance(positions, positionCursor, timeOfSpin)
            /\ distanceToNextAnchorPoint' =
                   Distance(Deref(positions, positionCursor').pose,
                            anchorPoints[anchorPointCursor + 1].position)
       ELSE /\ positionCursor' = positionCursor
            /\ distanceToNextAnchorPoint' = Infinity
    /\ mainPc' = "anchor"
    /\ UNCHANGED << commandCursor, anchorPointCursor, currentStatus, clockVars,
                    lookahead, serviceCallLock, lifeVars, timeOfSpin,
                    distanceToCurrentAnchorPoint, joyLocals, task, nSpawned,
                    lastCommand, apSwitches, cycleAdvances, faultPending >>
    /\ MainFrame

\* Lines 94-103: move to the next anchor point and publish the switch.  The two
\* distances are not read again in this cycle.
M_Anchor ==
    /\ mainPc = "anchor"
    /\ IF AnchorShouldAdvance(anchorPointCursor, Len(anchorPoints),
                              distanceToCurrentAnchorPoint, distanceToNextAnchorPoint)
       THEN /\ anchorPointCursor' = anchorPointCursor + 1
            /\ apSwitches' = Append(apSwitches, Deref(anchorPoints, anchorPointCursor').name)
            /\ cycleAdvances' = cycleAdvances + 1
       ELSE UNCHANGED << anchorPointCursor, apSwitches, cycleAdvances >>
    /\ distanceToCurrentAnchorPoint' = 0
    /\ distanceToNextAnchorPoint' = 0
    /\ mainPc' = "status"
    /\ UNCHANGED << commandCursor, positionCursor, currentStatus, clockVars,
                    lookahead, serviceCallLock, lifeVars, timeOfSpin,
                    joyLocals, task, nSpawned, lastCommand, faultPending >>
    /\ MainFrame

\* Line 106: if(currentStatus == PLAY).
M_CheckStatus ==
    /\ mainPc = "status"
    /\ mainPc' = IF currentStatus = "PLAY" THEN "cmd" ELSE "ref"
    /\ UNCHANGED << cursorVars, currentStatus, clockVars, lookahead, serviceCallLock,
                    lifeVars, spinLocals, joyLocals, task, nSpawned,
                    lastCommand, apSwitches, cycleAdvances, faultPending >>
    /\ MainFrame

\* Lines 108-110: correctCommand(commandOfTime(timeOfSpin)) is published.
M_Command ==
    /\ mainPc = "cmd"
    /\ commandCursor' = CommandAdvance(commands, commandCursor, timeOfSpin + lookahead)
    /\ lastCommand' = "corrected"
    /\ mainPc' = "ref"
    /\ UNCHANGED << positionCursor, anchorPointCursor, currentStatus, clockVars,
                    lookahead, serviceCallLock, lifeVars, spinLocals,
                    joyLocals, task, nSpawned, apSwitches, cycleAdvances,
                    faultPending >>
    /\ MainFrame

\* Line 113: the reference pose of simTime() is published; timeOfSpin is not
\* read again in this cycle.
M_RefPose ==
    /\ mainPc = "ref"
    /\ positionCursor' = PoseAdvance(positions, positionCursor, SimTime)
    /\ timeOfSpin' = 0
    /\ mainPc' = "spin"
    /\ UNCHANGED << commandCursor, anchorPointCursor, currentStatus, clockVars,
                    lookahead, serviceCallLock, lifeVars,
                    distanceToCurrentAnchorPoint, distanceToNextAnchorPoint,
                    joyLocals, task, nSpawned, lastCommand, apSwitches,
                    cycleAdvances, faultPending >>
    /\ MainFrame

---------------------------------------------------------------------------
\* The callbacks ros::spinOnce() runs on the main thread (line 115).

\* joystickCallback had it let RB resume from ERROR as it does from PAUSE.
JoyRequestResumesFromError(status, msg) ==
    CASE status = "PLAY"  /\ msg.RB = 0 -> "PAUSE"
      [] status \in {"PAUSE", "ERROR"} /\ msg.RB = 1 -> "PLAY"
      [] status = "ERROR" /\ msg.X = 1  -> "PAUSE"
      [] OTHER -> "none"

\* The status joystickCallback asks for, "none" when the message is ignored.
JoyRequest(status, msg) ==
    CASE status = "PLAY"  /\ msg.RB = 0 -> "PAUSE"
      [] status = "PAUSE" /\ msg.RB = 1 -> "PLAY"
      [] status = "ERROR" /\ msg.X = 1  -> "PAUSE"
      [] OTHER -> "none"

\* Lines 167-181: joystickCallback reads currentStatus and the buttons.  A
\* message it ignores stays in joyMsg until the main thread's next step.
JoystickCallback(msg) ==
    /\ mainPc = "spin"
    /\ IF JoyRequest(currentStatus, msg) = "none"
       THEN /\ joyMsg' = msg
            /\ UNCHANGED << mainPc, desiredStatus >>
       ELSE /\ mainPc' = "sw_switch"
            /\ desiredStatus' = JoyRequest(currentStatus, msg)
            /\ joyMsg' = msg
    /\ faultPending' = IF msg.X = 1 THEN FALSE ELSE faultPending
    /\ UNCHANGED << cursorVars, currentStatus, clockVars, lookahead, serviceCallLock,
                    lifeVars, spinLocals, task, nSpawned, lastCommand,
                    apSwitches, cycleAdvances >>
    /\ MainFrame

\* Lines 236-261 on the main thread (desiredStatus is PAUSE or PLAY, so the
\* test of line 229 is false): the switch reads currentStatus again.  The
\* recovery edge (line 258) writes at once.
Sw_Switch ==
    /\ mainPc = "sw_switch"
    /\ IF currentStatus = "ERROR" /\ desiredStatus = "PAUSE"
       THEN /\ currentStatus' = "PAUSE"
            /\ faultPending' = IF joyMsg.X = 1 THEN FALSE ELSE faultPending
            /\ mainPc' = "spin"
            /\ desiredStatus' = "PAUSE"
            /\ joyMsg' = NoJoy
       ELSE /\ UNCHANGED << currentStatus, faultPending >>
            /\ IF currentStatus = "PLAY" /\ desiredStatus = "PAUSE"
               THEN mainPc' = "sw_pause" /\ UNCHANGED joyLocals
               ELSE IF currentStatus = "PAUSE" /\ desiredStatus = "PLAY"
                    THEN mainPc' = "sw_start" /\ UNCHANGED joyLocals
                    ELSE mainPc' = "spin" /\ desiredStatus' = "PAUSE" /\ joyMsg' = NoJoy
    /\ UNCHANGED << cursorVars, clockVars, lookahead, serviceCallLock,
                    lifeVars, spinLocals, task, nSpawned, lastCommand,
                    apSwitches, cycleAdvances >>
    /\ MainFrame

\* Line 242: pausePlayback() of the PLAY -> PAUSE edge.
Sw_Pause ==
    /\ mainPc = "sw_pause"
    /\ PausePlayback
    /\ mainPc' = "sw_setpause"
    /\ UNCHANGED << cursorVars, currentStatus, timePlaybackStarted, lookahead,
                    serviceCallLock, lifeVars, spinLocals, joyLocals,
                    task, nSpawned, apSwitches, cycleAdvances, faultPending >>
    /\ MainFrame

\* Line 243: currentStatus = PAUSE.
Sw_SetPause ==
    /\ mainPc = "sw_setpause"
    /\ currentStatus' = "PAUSE"
    /\ faultPending' = IF joyMsg.X = 1 THEN FALSE ELSE faultPending
    /\ mainPc' = "spin"
    /\ desiredStatus' = "PAUSE"
    /\ joyMsg' = NoJoy
    /\ UNCHANGED << cursorVars, clockVars, lookahead, serviceCallLock,
                    lifeVars, spinLocals, task, nSpawned, lastCommand,
                    apSwitches, cycleAdvances >>
    /\ MainFrame

\* Line 250: startPlayback().
Sw_Start ==
    /\ mainPc = "sw_start"
    /\ timePlaybackStarted' = now
    /\ mainPc' = "sw_setplay"
    /\ UNCHANGED << cursorVars, currentStatus, baseSimTime, lookahead,
                    serviceCallLock, lifeVars, spinLocals, joyLocals,
                    task, nSpawned, lastCommand, apSwitches, cycleAdvances,
                    faultPending >>
    /\ MainFrame

\* Line 251: currentStatus = PLAY.
Sw_SetPlay ==
    /\ mainPc = "sw_setplay"
    /\ currentStatus' = "PLAY"
    /\ faultPending' = IF joyMsg.X = 1 THEN FALSE ELSE faultPending
    /\ mainPc' = "spin"
    /\ desiredStatus' = "PAUSE"
    /\ joyMsg' = NoJoy
    /\ UNCHANGED << cursorVars, clockVars, lookahead, serviceCallLock,
                    lifeVars, spinLocals, task, nSpawned, lastCommand,
                    apSwitches, cycleAdvances >>
    /\ MainFrame

\* Lines 162-165: cloudCallback spawns a thread running updateError.
CloudCallback ==
    /\ mainPc = "spin"
    /\ readingTopicActive
    /\ nSpawned < MaxScans
    /\ nSpawned' = nSpawned + 1
    /\ task' = task (+) SetToBag({NewTask})
    /\ joyMsg' = NoJoy
    /\ UNCHANGED << cursorVars, currentStatus, clockVars, lookahead, serviceCallLock,
                    lifeVars, mainPc, spinLocals, desiredStatus, lastCommand,
                    apSwitches, cycleAdvances, faultPending >>
    /\ MainFrame

\* Lines 321-325: paramCallback sets the lookahead.
ParamCallback(l) ==
    /\ mainPc = "spin"
    /\ lookahead' = l
    /\ joyMsg' = NoJoy
    /\ UNCHANGED << cursorVars, currentStatus, clockVars, serviceCallLock,
                    lifeVars, mainPc, spinLocals, desiredStatus, task,
                    nSpawned, lastCommand, apSwitches, cycleAdvances, faultPending >>
    /\ MainFrame

\* paramCallback in its two statements.  Line 323: the lookahead is set.
ParamLookahead(l) ==
    /\ mainPc = "spin"
    /\ lookahead' = l
    /\ mainPc' = "param"
    /\ joyMsg' = NoJoy
    /\ UNCHANGED << cursorVars, currentStatus, clockVars, serviceCallLock,
                    lifeVars, spinLocals, desiredStatus, task,
                    nSpawned, lastCommand, apSwitches, cycleAdvances, faultPending >>
    /\ MainFrame

\* Line 324: controller.updateParams writes the corrector; paramCallback
\* returns.
ParamUpdate ==
    /\ mainPc = "param"
    /\ mainPc' = "spin"
    /\ UNCHANGED << cursorVars, currentStatus, clockVars, lookahead, serviceCallLock,
                    lifeVars, spinLocals, joyLocals, task, nSpawned, lastCommand,
                    apSwitches, cycleAdvances, faultPending >>
    /\ MainFrame

\* Lines 115-117: spinOnce returns, the loop sleeps and tests again.
SpinDone ==
    /\ mainPc = "spin"
    /\ mainPc' = "loop"
    /\ joyMsg' = NoJoy
    /\ UNCHANGED << cursorVars, currentStatus, clockVars, lookahead, serviceCallLock,
                    lifeVars, spinLocals, desiredStatus, task, nSpawned,
                    lastCommand, apSwitches, cycleAdvances, faultPending >>
    /\ MainFrame

---------------------------------------------------------------------------
\* The destructor, run by the main thread once spin() has returned.

\* Line 122: readingTopic.shutdown().
D_Shutdown ==
    /\ mainPc = "exited"
    /\ readingTopicActive' = FALSE
    /\ mainPc' = "d_lock"
    /\ UNCHANGED << cursorVars, currentStatus, clockVars, lookahead, serviceCallLock,
                    rosOk, spinLocals, joyLocals, task, nSpawned, lastCommand,
                    apSwitches, cycleAdvances, faultPending >>
    /\ MainFrame

\* Line 123: serviceCallLock.lock() blocks until the lock is free.
D_Lock ==
    /\ mainPc = "d_lock"
    /\ ~serviceCallLock
    /\ serviceCallLock' = TRUE
    /\ mainPc' = "d_unlock"
    /\ UNCHANGED << cursorVars, currentStatus, clockVars, lookahead,
                    lifeVars, spinLocals, joyLocals, task, nSpawned,
                    lastCommand, apSwitches, cycleAdvances, faultPending >>
    /\ MainFrame

\* Line 124: serviceCallLock.unlock(); the object is gone.
D_Unlock ==
    /\ mainPc = "d_unlock"
    /\ serviceCallLock' = FALSE
    /\ mainPc' = "destroyed"
    /\ UNCHANGED << cursorVars, currentStatus, clockVars, lookahead,
                    lifeVars, spinLocals, joyLocals, task, nSpawned,
                    lastCommand, apSwitches, cycleAdvances, faultPending >>
    /\ MainFrame

---------------------------------------------------------------------------
\* The node: the main thread, the scan tasks and the environment interleaved.

\* A step of one of the live scan threads.
ScanPrepare == \E r \in BagToSet(task) : T_Prepare(r)
ScanTransform == \E r \in BagToSet(task) : T_Transform(r)
ScanRequest == \E r \in BagToSet(task) : T_Request(r)
ScanTryLock == \E r \in BagToSet(task) : T_TryLock(r)
ScanDropped == \E r \in BagToSet(task) : T_Dropped(r)
ScanCallOk == \E r \in BagToSet(task) : T_CallOk(r)
ScanUpdate == \E r \in BagToSet(task) : T_Update(r)
ScanCallFail == \E r \in BagToSet(task) : T_CallFail(r)
ScanSwCheck == \E r \in BagToSet(task) : T_SwCheck(r)
ScanSwPause == \E r \in BagToSet(task) : T_SwPause(r)
ScanSwSet == \E r \in BagToSet(task) : T_SwSet(r)
ScanUnlock == \E r \in BagToSet(task) : T_Unlock(r)

\* The steps every specification of the node takes the same way.
NextCommon ==
    \/ Tick
    \/ M_Loop
    \/ M_SimTime
    \/ M_DistCur
    \/ M_DistNext
    \/ M_Anchor
    \/ M_CheckStatus
    \/ M_Command
    \/ M_RefPose
    \/ \E msg \in JoyMsgs : JoystickCallback(msg)
    \/ Sw_Switch
    \/ Sw_Pause
    \/ Sw_SetPause
    \/ Sw_Start
    \/ Sw_SetPlay
    \/ CloudCallback
    \/ SpinDone
    \/ D_Shutdown
    \/ D_Lock
    \/ D_Unlock
    \/ ScanTryLock
    \/ ScanDropped
    \/ ScanCallOk
    \/ ScanUpdate
    \/ ScanCallFail
    \/ ScanSwCheck
    \/ ScanSwPause
    \/ ScanSwSet
    \/ ScanUnlock

\* The node, with the building of a scan's request (lines 129-140) and
\* paramCallback each taken as one step.
Next ==
    \/ NextCommon
    \/ ScanPrepare
    \/ \E l \in MainLookaheads : ParamCallback(l)

Spec == Init /\ [][Next]_vars

\* The node, with those two taken statement by statement: the two reads of
\* anchorPointCursor in updateError, the two statements of paramCallback.
NextFine ==
    \/ NextCommon
    \/ ScanTransform
    \/ ScanRequest
    \/ \E l \in MainLookaheads : ParamLookahead(l)
    \/ ParamUpdate

SpecFine == Init /\ [][NextFine]_vars

---------------------------------------------------------------------------
\* The node under its scheduling: the main thread keeps running (the loop,
\* the body of a callback, the destructor) and every scan thread keeps
\* running, its registration call returning.  Callbacks arrive or not.

MainStep ==
    \/ M_Loop \/ M_SimTime \/ M_DistCur \/ M_DistNext \/ M_Anchor
    \/ M_CheckStatus \/ M_Command \/ M_RefPose \/ SpinDone
    \/ Sw_Switch \/ Sw_Pause \/ Sw_SetPause \/ Sw_Start \/ Sw_SetPlay
    \/ D_Shutdown \/ D_Lock \/ D_Unlock

ScanStep ==
    \/ ScanPrepare \/ ScanTryLock \/ ScanDropped \/ ScanCallOk \/ ScanUpdate
    \/ ScanCallFail \/ ScanSwCheck \/ ScanSwPause \/ ScanSwSet \/ ScanUnlock

SpecLive == Spec /\ WF_vars(MainStep) /\ WF_vars(ScanStep)

---------------------------------------------------------------------------
\* commandOfTime on its own: any non-empty recorded command sequence, any
\* sequence of query times and lookahead values.

\* Lines 183-194: commandOfTime(time), recording the call in queryVars.
CommandOfTime(time) ==
    /\ prevCursor' = commandCursor
    /\ qTime' = time
    /\ qLook' = lookahead
    /\ commandCursor' = CommandAdvance(commands, commandCursor, time + lookahead)
    /\ result' = Deref(commands, commandCursor').twist

InitCmd ==
    /\ commands \in CommandSeqs
    /\ positions = TeachPositions
    /\ anchorPoints = TeachAnchorPoints
    /\ lookahead \in Lookaheads
    /\ InitNode

\* A caller asks for the command of a time.
CmdQuery(time) ==
    /\ CommandOfTime(time)
    /\ UNCHANGED << dataVars, positionCursor, anchorPointCursor, currentStatus,
                    clockVars, lookahead, serviceCallLock, now, lifeVars,
                    mainPc, spinLocals, joyLocals, task, nSpawned, lastCommand,
                    apSwitches, cycleAdvances, faultPending >>

\* Lines 321-325: paramCallback sets another lookahead between two queries.
CmdParam(l) ==
    /\ lookahead' = l
    /\ UNCHANGED << dataVars, cursorVars, currentStatus, clockVars,
                    serviceCallLock, now, lifeVars, mainPc, spinLocals,
                    joyLocals, task, nSpawned, lastCommand, apSwitches,
                    cycleAdvances, faultPending, queryVars >>

NextCmd ==
    \/ \E time \in 0..MaxTime : CmdQuery(time)
    \/ \E l \in Lookaheads : CmdParam(l)

SpecCmd == InitCmd /\ [][NextCmd]_vars

---------------------------------------------------------------------------
\* The start of spin() after any outcome of loading: loadCommands and
\* loadPositions leave the vector empty when the file cannot be opened.

InitLoad ==
    /\ commands \in CommandSeqs \cup { << >> }
    /\ positions \in PoseSeqs \cup { << >> }
    /\ anchorPoints = TeachAnchorPoints
    /\ lookahead \in MainLookaheads
    /\ InitNode

\* The first loop test and the cycle it may start, up to its first read of
\* the pose sequence.
NextLoad ==
    \/ M_Loop
    \/ M_SimTime
    \/ M_DistCur

SpecLoad == InitLoad /\ [][NextLoad]_vars

---------------------------------------------------------------------------
\* poseOfTime step by step.  The main thread (lines 85, 88, 113) and every
\* scan thread (line 130) call it on the one positionCursor with no lock
\* held.  In Spec a call is one step; here each call is a thread of the bag
\* task, taking the loop test (line 200) and the two halves of
\* positionCursor++ (line 202) as separate steps.

\* Times the callers ask for: before the first stamp, between two stamps,
\* beyond the last one (tenths of a second).
PoseTimes == {0, 15, 25}

\* A call of poseOfTime(time) as it starts (line 198).
NewPoseCall(time) == [pc |-> "pose_test", time |-> time, previousCursor |-> 0]

PoseFrame ==
    UNCHANGED << dataVars, commandCursor, anchorPointCursor, currentStatus,
                 clockVars, lookahead, serviceCallLock, envVars, lifeVars, mainPc,
                 spinLocals, joyLocals, nSpawned, lastCommand, apSwitches,
                 cycleAdvances, faultPending, queryVars >>

\* A thread enters poseOfTime: the main thread or one of the scan threads.
PoseCall(time) ==
    /\ BagCardinality(task) < MaxScans + 1
    /\ task' = task (+) SetToBag({NewPoseCall(time)})
    /\ UNCHANGED positionCursor
    /\ PoseFrame

\* Line 200: the loop test.  When it fails the call returns (line 205).  With
\* the cursor outside the vector the stamp read is garbage, and the second
\* conjunct is false whatever was read.
PoseTest(r) ==
    /\ r.pc = "pose_test"
    /\ IF Deref(positions, positionCursor).stamp < r.time
          /\ positionCursor < Len(positions)
       THEN task' = Moved(r, [r EXCEPT !.pc = "pose_load"])
       ELSE task' = Ended(r)
    /\ UNCHANGED positionCursor
    /\ PoseFrame

\* Line 202, first half of positionCursor++: the cursor is read.
PoseLoad(r) ==
    /\ r.pc = "pose_load"
    /\ task' = Moved(r, [r EXCEPT !.pc = "pose_store", !.previousCursor = positionCursor])
    /\ UNCHANGED positionCursor
    /\ PoseFrame

\* Line 202, second half: the cursor read plus one is written back.
PoseStore(r) ==
    /\ r.pc = "pose_store"
    /\ positionCursor' = r.previousCursor + 1
    /\ task' = Moved(r, [r EXCEPT !.pc = "pose_test", !.previousCursor = 0])
    /\ PoseFrame

InitPose ==
    /\ commands = TeachCommands
    /\ positions \in PoseSeqs
    /\ anchorPoints = TeachAnchorPoints
    /\ lookahead \in MainLookaheads
    /\ InitNode

PoseTestStep == \E r \in BagToSet(task) : PoseTest(r)
PoseLoadStep == \E r \in BagToSet(task) : PoseLoad(r)
PoseStoreStep == \E r \in BagToSet(task) : PoseStore(r)

NextPose ==
    \/ \E time \in PoseTimes : PoseCall(time)
    \/ PoseTestStep
    \/ PoseLoadStep
    \/ PoseStoreStep

SpecPose == InitPose /\ [][NextPose]_vars

---------------------------------------------------------------------------
\* Properties.

\* A scan thread between its successful try_lock and its unlock.
InGuard(r) == r.pc \in {"call", "update", "sw_check", "sw_pause", "sw_set", "unlock"}

\* The main thread is inside joystickCallback, handling joyMsg.
InJoystick == mainPc \in {"sw_switch", "sw_pause", "sw_setpause", "sw_start", "sw_setplay"}

\* C1: at most one scan task is inside the registration call (between a
\* successful try_lock of serviceCallLock and its unlock) at any instant, and
\* it holds the lock; a task that failed the try_lock (or has not tried yet)
\* has made no registration call.
C1_OneRegistrationInFlight ==
    /\ \A r \in BagToSet(task) :
         InGuard(r) =>
            /\ CopiesIn(r, task) = 1
            /\ serviceCallLock
            /\ r.calls = 1
            /\ \A r2 \in BagToSet(task) : InGuard(r2) => r2 = r
    /\ \A r \in BagToSet(task) : r.pc \in {"start", "request", "trylock", "dropped"} => r.calls = 0

\* C1 witness: one scan task is in its registration call while another has
\* failed the try_lock and is being dropped.
C1_Witness ==
    /\ \E r \in BagToSet(task) : r.pc = "call"
    /\ \E r \in BagToSet(task) : r.pc = "dropped"

\* C2: currentStatus starts as PAUSE and every change of it is PAUSE -> PLAY on
\* a message with RB = 1 (resume), PLAY -> PAUSE on a message with RB = 0
\* (pause), ERROR -> PAUSE on a message with X = 1 (acknowledge), or a
\* non-ERROR status -> ERROR by a scan task whose registration failed.
C2_OnlyDocumentedTransitions ==
    /\ currentStatus = "PAUSE"
    /\ [][ currentStatus' # currentStatus =>
            \/ /\ currentStatus = "PAUSE" /\ currentStatus' = "PLAY"
               /\ InJoystick /\ joyMsg.RB = 1
            \/ /\ currentStatus = "PLAY" /\ currentStatus' = "PAUSE"
               /\ InJoystick /\ joyMsg.RB = 0
            \/ /\ currentStatus = "ERROR" /\ currentStatus' = "PAUSE"
               /\ InJoystick /\ joyMsg.X = 1
            \/ /\ currentStatus # "ERROR" /\ currentStatus' = "ERROR"
               /\ \E r \in BagToSet(task) : r.pc = "sw_set" /\ r.stAtFail # "none"
         ]_vars

\* C3: when the fault of a registration call that failed in PLAY has been
\* handled (the task reaches its unlock), that task has published exactly one
\* idle command and the step that ends the handling leaves currentStatus =
\* ERROR, whatever the main thread does in between.
C3_FaultInPlayIdlesOnce ==
    [][ \A r \in BagToSet(task') :
            (r.pc = "unlock" /\ r.stAtFail = "PLAY" /\ CopiesIn(r, task) = 0)
                => (r.idles = 1 /\ currentStatus' = "ERROR") ]_vars

\* C3 witness: a task whose call failed in PLAY has handled the fault with one
\* idle command while the main thread, inside joystickCallback, was about to
\* pause.
C3_Witness ==
    /\ \E r \in BagToSet(task) : r.pc = "unlock" /\ r.stAtFail = "PLAY" /\ r.idles = 1
    /\ currentStatus = "ERROR"
    /\ mainPc = "sw_pause"

\* C4: the main loop publishes a corrected command (and calls correctCommand)
\* only while currentStatus is PLAY.
C4_CorrectedOnlyInPlay ==
    [][ (mainPc = "cmd" /\ mainPc' # "cmd") => currentStatus = "PLAY" ]_vars

\* C5: once a fault has set ERROR, currentStatus stays ERROR until an
\* acknowledge input (a message with X = 1) arrives: no failure is lost and
\* ERROR is never left for PLAY directly.
C5_ErrorHeldUntilAcknowledge ==
    faultPending => currentStatus = "ERROR"

\* C6: baseSimTime changes only in a transition that leaves PLAY, so simTime()
\* is constant while currentStatus is PAUSE or ERROR.
C6_BaseChangesOnlyLeavingPlay ==
    [][ baseSimTime' # baseSimTime => currentStatus = "PLAY" ]_vars

\* A commandOfTime call has been recorded (twists are numbered from 1).
Queried == result # 0

\* The scenario of C7: commands stamped 0 s, 1 s, 2 s, lookahead 0.5 s, a fresh
\* cursor, commandOfTime(0.4 s); times in tenths of a second.
Scenario ==
    /\ Queried
    /\ Len(commands) = 3
    /\ \A i \in 1..3 : commands[i].stamp = 10 * (i - 1)
    /\ prevCursor = 1
    /\ qTime = 4
    /\ qLook = 5

\* C7 as stated: commandOfTime moves the cursor forward while the NEXT entry
\* is stamped before time + lookahead and the cursor is not at the last
\* element, and returns the twist at the cursor; in the scenario it returns
\* the command stamped 0.
C7_AdvanceWhileNextBeforeLimit ==
    Queried =>
        /\ prevCursor <= commandCursor /\ commandCursor <= Len(commands)
        /\ \A i \in prevCursor..(commandCursor - 1) :
               commands[i + 1].stamp < qTime + qLook
        /\ commandCursor < Len(commands) =>
               commands[commandCursor + 1].stamp >= qTime + qLook
        /\ result = commands[commandCursor].twist
        /\ Scenario => commands[commandCursor].stamp = 0

\* C7 amended: commandOfTime moves the cursor forward while the entry AT the
\* cursor is stamped before time + lookahead and the cursor is not at the last
\* element, and returns the twist at the cursor; in the scenario it returns
\* the command stamped 1 s.
C7_AdvanceWhileCurrentBeforeLimit ==
    Queried =>
        /\ prevCursor <= commandCursor /\ commandCursor <= Len(commands)
        /\ \A i \in prevCursor..(commandCursor - 1) :
               commands[i].stamp < qTime + qLook
        /\ commandCursor < Len(commands) =>
               commands[commandCursor].stamp >= qTime + qLook
        /\ result = commands[commandCursor].twist
        /\ Scenario => commands[commandCursor].stamp = 10

\* C7 witness: the scenario has been played, with the cursor on the second
\* command.
C7_Witness ==
    Scenario /\ commandCursor = 2 /\ result = 2

\* C8: over any sequence of commandOfTime calls on a non-empty sequence, with
\* any times and lookahead values, commandCursor never decreases and never
\* passes the last element.
C8_CursorMonotoneAndClamped ==
    [][ /\ commandCursor' >= commandCursor
        /\ commandCursor' <= Len(commands') ]_vars

\* C8 witness: a query beyond the last timestamp has moved the cursor to the
\* last element, where it stays.
C8_Witness ==
    /\ Queried
    /\ qTime + qLook > commands[Len(commands)].stamp
    /\ prevCursor < commandCursor
    /\ commandCursor = Len(commands)

C10_NoCallAfterShutdown ==
    mainPc = "destroyed" => \A r \in BagToSet(task) : r.pc # "call"

\* C11: if loading left the command sequence or the pose sequence empty, the
\* loop ends on its first test: no cycle is started, so no element is read.
C11_EmptyTeachEndsAtFirstTest ==
    (commands = << >> \/ positions = << >>) => mainPc \in {"loop", "exited"}

\* Playback has run past the stamp of the last but one command: from then on
\* commandOfTime moves the cursor to the last command.
PlayingPastLast ==
    /\ currentStatus = "PLAY"
    /\ \A i \in 1..(Len(commands) - 1) : commands[i].stamp < SimTime + lookahead

\* C12: the loop ends at a loop test, exactly when the command cursor is at
\* the last command or a stop was requested (ros::ok() false); and when the
\* status eventually stays PLAY with the clock advancing past the recorded
\* stamps and no stop is requested, the cursor reaches the last command and the
\* loop ends.
C12_LoopEnds ==
    /\ [][ /\ (mainPc # "exited" /\ mainPc' = "exited") => mainPc = "loop"
          /\ (mainPc = "loop" /\ mainPc' # "loop") =>
                (mainPc' = "exited" <=> (commandCursor = Len(commands) \/ ~rosOk'))
        ]_vars
    /\ (<>[]PlayingPastLast /\ []rosOk) =>
          <>(mainPc = "exited" /\ commandCursor = Len(commands))

\* C12 witness: the loop has ended in PLAY with the cursor on the last
\* command, no stop requested.
C12_Witness ==
    /\ mainPc = "exited"
    /\ rosOk
    /\ currentStatus = "PLAY"
    /\ commandCursor = Len(commands)
    /\ PlayingPastLast

\* C13: with poseOfTime called by the main thread and by scan threads at
\* once, positionCursor never decreases and never passes the last element of
\* a non-empty pose sequence.
C13_PoseCursorMonotoneAndClamped ==
    [][ /\ positionCursor' >= positionCursor
        /\ positionCursor' <= Len(positions) ]_vars

\* The main thread holds serviceCallLock: only between lines 123 and 124.
MainHoldsGuard == mainPc = "d_unlock"

\* C14: every write of the corrector (controller.updateError by a scan task,
\* controller.updateParams by paramCallback) is made by a thread holding
\* serviceCallLock, and no such write is pending together with another one
\* or with the main loop's correctCommand.
C14_CorrectorWritesGuarded ==
    /\ mainPc = "param" => MainHoldsGuard
    /\ \A r \in BagToSet(task) : r.pc = "update" => (serviceCallLock /\ ~MainHoldsGuard)
    /\ ~(mainPc \in {"param", "cmd"} /\ \E r \in BagToSet(task) : r.pc = "update")

\* Some scan task is between its successful try_lock and its unlock.
ScanHoldsGuard == \E r \in BagToSet(task) : InGuard(r)

\* The step is the try_lock of a scan task, made while holder is false, and
\* the task is accepted: it gets the lock and goes on to its call.
TryLockAccepted(holder) ==
    \A r \in BagToSet(task) :
        (r.pc = "trylock" /\ CopiesIn(r, task') < CopiesIn(r, task) /\ ~holder)
            => (serviceCallLock' /\ \E q \in BagToSet(task') : q.pc = "call")

\* C15 as stated: whenever no scan task is running the guard is free, a scan
\* task trying the guard while no scan task holds it is accepted, and the
\* guard is free again and again.
C15_GuardFreeWithoutScanTask ==
    /\ [](task = EmptyBag => ~serviceCallLock)
    /\ [][TryLockAccepted(ScanHoldsGuard)]_vars
    /\ []<>(~serviceCallLock)

\* C15 amended: the guard is held exactly while a scan task is between its
\* try_lock and its unlock (whether its call succeeded or failed) or the
\* destructor is between its lock and unlock; a scan task trying the guard
\* while neither holds it is accepted; and, registration calls returning, the
\* guard is free again and again.
C15_GuardHeldOnlyByHolder ==
    /\ [](serviceCallLock <=> (ScanHoldsGuard \/ MainHoldsGuard))
    /\ [][TryLockAccepted(ScanHoldsGuard \/ MainHoldsGuard)]_vars
    /\ []<>(~serviceCallLock)

\* C15 witness: a task whose call failed has handled the fault and ended, and
\* the next task has been accepted and is in its call.
C15_Witness ==
    /\ faultPending
    /\ nSpawned = 2
    /\ BagCardinality(task) = 1
    /\ \E r \in BagToSet(task) : r.pc = "call"

\* C16: the request a scan task sends when its try_lock succeeds pairs a
\* reading transformed with the pose of an anchor point with the cloud of
\* that same anchor point.
C16_SameAnchorForPoseAndCloud ==
    [][ \A r \in BagToSet(task) :
            (r.pc = "trylock" /\ CopiesIn(r, task') < CopiesIn(r, task)
             /\ \E q \in BagToSet(task') : q.pc = "call")
                => r.poseAnchor = r.cloudAnchor ]_vars

\* What playback consists of besides the status: the clocks, the command
\* output, the command and anchor cursors.
PlaybackFrame ==
    UNCHANGED << clockVars, lastCommand, commandCursor, anchorPointCursor >>

\* C17: in ERROR joystickCallback asks for PAUSE on an acknowledge input
\* (X = 1) only, and the step of switchToStatus that serves it sets PAUSE and
\* changes nothing else of playback: no idle command, baseSimTime and
\* timePlaybackStarted as they were; and a scan task whose
\* fault finds currentStatus = ERROR at the test of line 229 goes straight to
\* its unlock, having published no idle command, with the status and the
\* rest of playback unchanged.
C17_AcknowledgeAndRepeatedFault ==
    [][ /\ (mainPc = "spin" /\ mainPc' = "sw_switch" /\ currentStatus = "ERROR")
              => /\ joyMsg'.X = 1 /\ desiredStatus' = "PAUSE"
                 /\ currentStatus' = "ERROR" /\ PlaybackFrame
        /\ (mainPc = "sw_switch" /\ mainPc' # mainPc /\ joyMsg.X = 1
             /\ desiredStatus = "PAUSE" /\ currentStatus = "ERROR")
              => (currentStatus' = "PAUSE" /\ mainPc' = "spin" /\ PlaybackFrame)
        /\ \A r \in BagToSet(task) :
              (r.pc = "sw_check" /\ CopiesIn(r, task') < CopiesIn(r, task)
               /\ currentStatus = "ERROR")
                => /\ r.idles = 0
                   /\ [r EXCEPT !.pc = "unlock"] \in BagToSet(task')
                   /\ currentStatus' = "ERROR"
                   /\ PlaybackFrame
      ]_vars

\* C17 witness: a fault found the status already ERROR and published nothing,
\* and before its task unlocked an acknowledge input has set PAUSE.
C17_Witness ==
    /\ \E r \in BagToSet(task) : r.pc = "unlock" /\ r.stAtFail = "ERROR" /\ r.idles = 0
    /\ currentStatus = "PAUSE"
    /\ mainPc = "spin"
    /\ ~faultPending

\* The manual inputs that are transitions of the status: resume (RB = 1) in
\* PAUSE, pause (RB = 0) in PLAY, acknowledge (X = 1) in ERROR.
JoyValid(status, msg) ==
    \/ status = "PAUSE" /\ msg.RB = 1
    \/ status = "PLAY" /\ msg.RB = 0
    \/ status = "ERROR" /\ msg.X = 1

\* C18: joystickCallback enters switchToStatus only on an input that is a
\* transition of the status it reads; on any other input it returns having
\* left currentStatus, baseSimTime, timePlaybackStarted and the command
\* output as they were.
C18_InvalidInputIgnored ==
    [][ /\ (mainPc = "spin" /\ mainPc' = "sw_switch") => JoyValid(currentStatus, joyMsg')
        /\ (mainPc = "spin" /\ mainPc' = "spin" /\ task' = task
             /\ ~JoyValid(currentStatus, joyMsg'))
              => (currentStatus' = currentStatus /\ PlaybackFrame)
      ]_vars

\* C18 witness: in ERROR, after the fault's idle command, a resume input
\* without acknowledge has been handled and ignored.
C18_Witness ==
    /\ mainPc = "spin"
    /\ currentStatus = "ERROR"
    /\ joyMsg = [RB |-> 1, X |-> 0]
    /\ lastCommand = "idle"
    /\ faultPending

\* The step is taken by the scan thread r.
StepOf(r) == CopiesIn(r, task') < CopiesIn(r, task)

\* C19: a scan task whose try_lock finds serviceCallLock held is dropped: it
\* ends having made no registration call, no controller.updateError, no
\* error report and having published no command, and its steps from the
\* try_lock on leave currentStatus, baseSimTime, commandCursor and
\* anchorPointCursor (and the lock) as they were.
C19_DroppedScanHasNoEffect ==
    [][ \A r \in BagToSet(task) :
          /\ (r.pc = "trylock" /\ StepOf(r) /\ serviceCallLock) =>
                /\ \E q \in BagToSet(task') :
                      /\ q.pc = "dropped" /\ CopiesIn(q, task') > CopiesIn(q, task)
                      /\ q.calls = 0 /\ q.updates = 0 /\ q.reports = 0 /\ q.idles = 0
                /\ serviceCallLock'
                /\ currentStatus' = currentStatus /\ PlaybackFrame
          /\ (r.pc = "dropped" /\ StepOf(r)) =>
                /\ BagCardinality(task') = BagCardinality(task) - 1
                /\ r.calls = 0 /\ r.updates = 0 /\ r.reports = 0 /\ r.idles = 0
                /\ serviceCallLock' = serviceCallLock
                /\ currentStatus' = currentStatus /\ PlaybackFrame
      ]_vars

\* C19 witness: during playback a scan task has found the lock held by a
\* task whose call then succeeded, and is at the end of its dropped branch.
C19_Witness ==
    /\ \E r \in BagToSet(task) :
          r.pc = "dropped" /\ r.calls = 0 /\ r.updates = 0 /\ r.reports = 0
    /\ \E r \in BagToSet(task) : r.pc = "unlock" /\ r.updates = 1
    /\ currentStatus = "PLAY"
    /\ lastCommand = "corrected"

\* C20: a registration call that returns true is followed by one
\* controller.updateError and one error report, whatever currentStatus is,
\* and neither the return nor the update changes currentStatus; a task ends
\* with one update and one report when its call succeeded, with none when
\* it failed.
C20_SuccessUpdatesAndReportsOnce ==
    [][ \A r \in BagToSet(task) :
          StepOf(r) =>
            /\ (r.pc = "call" /\ \E q \in BagToSet(task') : q.pc = "update")
                  => currentStatus' = currentStatus
            /\ r.pc = "update" =>
                  /\ \E q \in BagToSet(task') :
                        q.pc = "unlock" /\ q.updates = 1 /\ q.reports = 1
                  /\ currentStatus' = currentStatus
            /\ r.pc = "unlock" =>
                  IF r.stAtFail = "none"
                  THEN r.updates = 1 /\ r.reports = 1
                  ELSE r.updates = 0 /\ r.reports = 0
      ]_vars

\* C20 witness: a call has succeeded and its result was used while playback,
\* started earlier, is paused.
C20_Witness ==
    /\ \E r \in BagToSet(task) :
          r.pc = "unlock" /\ r.stAtFail = "none" /\ r.updates = 1 /\ r.reports = 1
    /\ currentStatus = "PAUSE"
    /\ lastCommand = "idle"
    /\ baseSimTime > 0

===========================================================================
